---- MODULE Spec2Model ----
(***************************************************************************)
(* Rewindify frontend: FolderUpload.handleFolderSelect (session creation,   *)
(* file splitting, sequential chunk upload), App (handleUploadComplete,     *)
(* handleClearData, handleDateClick, sessionStorage effects) and Chatbot    *)
(* (handleSend), together with the backend endpoints they talk to.          *)
(***************************************************************************)
EXTENDS Integers, Sequences, FiniteSets, TLC

\* ------------------------------------------------------------------ bounds
MaxRecords == 5
MaxSizeFactor == 3
MaxFlows == 2

\* ------------------------------------------------------- program constants
\* FolderUpload.jsx:101  const MAX_CHUNK_SIZE = 8 * 1024 * 1024
MAX_CHUNK_SIZE == 8 * 1024 * 1024

\* an optional value (null / absent key) is a sequence of length 0 or 1
None == << >>
Some(v) == <<v>>

\* ------------------------------------------------------------ JS helpers
Min(a, b) == IF a < b THEN a ELSE b

\* Math.ceil(a / b) for a >= 0, b > 0
MathCeilDiv(a, b) == (a + b - 1) \div b

\* Math.round(t) of a non-negative number t carried in thousandths
MathRound(t) == (t + 500) \div 1000

\* Array.prototype.slice(start, end) on 0-based indices, both clamped to length
ArraySlice(arr, start, end) ==
  LET len == Len(arr)
      s == Min(start, len)
      e == Min(end, len)
  IN  IF s >= e THEN << >> ELSE [k \in 1..(e - s) |-> arr[s + k]]

RECURSIVE Flatten(_)
Flatten(seqs) ==
  IF seqs = << >> THEN << >> ELSE Head(seqs) \o Flatten(Tail(seqs))

RECURSIVE SumSeq(_)
SumSeq(s) == IF s = << >> THEN 0 ELSE Head(s) + SumSeq(Tail(s))

\* [...new Set(s)]: distinct values in order of first occurrence
RECURSIVE Distinct(_)
Distinct(s) ==
  IF s = << >> THEN << >>
  ELSE LET init == Distinct(SubSeq(s, 1, Len(s) - 1))
           last == s[Len(s)]
       IN  IF \E i \in 1..Len(init) : init[i] = last THEN init
           ELSE Append(init, last)

\* ------------------------------------------- file splitting (FolderUpload)
\* A File: [name, kind, size, parses, json]; json is the array of records that
\* JSON.parse(await file.text()) returns, parses is FALSE when it throws.

\* const totalChunks = Math.ceil(file.size / MAX_CHUNK_SIZE)
TotalChunks(file) == MathCeilDiv(file.size, MAX_CHUNK_SIZE)

\* const recordsPerChunk = Math.ceil(jsonData.length / totalChunks)
RecordsPerChunkMutFloor(jsonData, totalChunks) == Len(jsonData) \div totalChunks
RecordsPerChunk(jsonData, totalChunks) == MathCeilDiv(Len(jsonData), totalChunks)

\* the byte length of JSON.stringify(chunkData): the brackets, the records
\* (each record carries the length of its own JSON text) and the commas
StringifiedSize(chunkData) ==
  2 + SumSeq([i \in 1..Len(chunkData) |-> chunkData[i].bytes])
    + (IF Len(chunkData) > 1 THEN Len(chunkData) - 1 ELSE 0)

\* one iteration of the for (chunkIndex ...) loop: the fileInfo pushed
FileChunk(file, totalChunks, chunkIndex) ==
  LET jsonData == file.json
      recordsPerChunk == RecordsPerChunk(jsonData, totalChunks)
      startIdx == chunkIndex * recordsPerChunk
      endIdx == Min(startIdx + recordsPerChunk, Len(jsonData))
      chunkData == ArraySlice(jsonData, startIdx, endIdx)
  IN  [ file |-> [name |-> <<file.name, chunkIndex + 1, totalChunks>>,
                  json |-> chunkData,
                  size |-> StringifiedSize(chunkData)],
        originalName |-> file.name,
        chunkIndex |-> chunkIndex,
        totalChunks |-> totalChunks ]

\* the file.size <= MAX_CHUNK_SIZE branch: the file itself, unread
WholeFileChunk(file) ==
  [ file |-> [name |-> <<file.name>>, json |-> file.json, size |-> file.size],
    originalName |-> file.name,
    chunkIndex |-> 0,
    totalChunks |-> 1 ]

NeedsSplit(file) == file.size > MAX_CHUNK_SIZE

\* the chunks one file contributes (lines 120-172)
ChunksOfFile(file) ==
  IF ~NeedsSplit(file) THEN <<WholeFileChunk(file)>>
  ELSE [i \in 1..TotalChunks(file) |-> FileChunk(file, TotalChunks(file), i - 1)]

\* JSON.parse of a large file throws inside the for (fileIndex ...) loop
ChunkingThrowsMutFirstFileOnly(validFiles) ==
  NeedsSplit(validFiles[1]) /\ ~validFiles[1].parses
ChunkingThrows(validFiles) ==
  \E i \in 1..Len(validFiles) : NeedsSplit(validFiles[i]) /\ ~validFiles[i].parses

\* the chunks array the for (fileIndex ...) loop builds when nothing throws
BuildChunks(validFiles) ==
  Flatten([i \in 1..Len(validFiles) |-> ChunksOfFile(validFiles[i])])

\* validFiles = Array.from(files).filter(...): the file name's class decides
\* (.ds_store, thumbs.db, desktop.ini, ._*: "system"; not *.json: "nonjson";
\* not streaming_history_audio*: "other"; else "audio")
IsValidFile(file) == file.kind = "audio"
ValidFiles(files) == SelectSeq(files, IsValidFile)

\* ------------------------------------------------------------ dates (App)
\* a "YYYY-MM-DD" date string
Dec31 == [y |-> 2023, m |-> 12, d |-> 31]
Jan01 == [y |-> 2024, m |-> 1, d |-> 1]

\* new Date("YYYY-MM-DD") is UTC midnight of that day: the comparator
\* new Date(a.date) - new Date(b.date) orders by (y, m, d)
DateBefore(a, b) ==
  \/ a.y < b.y
  \/ a.y = b.y /\ a.m < b.m
  \/ a.y = b.y /\ a.m = b.m /\ a.d < b.d

\* new Date(date).getFullYear(): the year, in the browser's zone, of UTC
\* midnight; tzHours is the zone's offset from UTC in hours (-12..14)
GetFullYear(date, tzHours) ==
  IF tzHours < 0 /\ date.m = 1 /\ date.d = 1 THEN date.y - 1 ELSE date.y

\* Array.prototype.sort((a, b) => new Date(a.date) - new Date(b.date)): stable
RECURSIVE InsertByDate(_, _)
InsertByDate(sorted, e) ==
  IF sorted = << >> THEN <<e>>
  ELSE IF DateBefore(e.date, Head(sorted).date)
       THEN <<e>> \o sorted
       ELSE <<Head(sorted)>> \o InsertByDate(Tail(sorted), e)

RECURSIVE SortByDate(_)
SortByDate(s) ==
  IF s = << >> THEN << >>
  ELSE InsertByDate(SortByDate(SubSeq(s, 1, Len(s) - 1)), s[Len(s)])

\* ------------------------------------------------ uploaded files (inputs)
Ev(date, ms, track) == [date |-> date, ms |-> ms, track |-> track, bytes |-> 400]

FileDsStore ==
  [name |-> ".DS_Store", kind |-> "system", size |-> 6148,
   parses |-> FALSE, json |-> << >>]
\* one chunk, one play on Dec 31
FileA ==
  [name |-> "Streaming_History_Audio_0.json", kind |-> "audio",
   size |-> MAX_CHUNK_SIZE,
   parses |-> TRUE,
   json |-> << Ev(Dec31, 90400, "t1") >>]
\* two chunks: [Jan 1, Dec 31] and [Jan 1]
FileB ==
  [name |-> "Streaming_History_Audio_1.json", kind |-> "audio",
   size |-> MAX_CHUNK_SIZE + 1,
   parses |-> TRUE,
   json |-> << Ev(Jan01, 30300, "t2"), Ev(Dec31, 45200, "t1"), Ev(Jan01, 61000, "t3") >>]
\* one chunk whose only record has ms_played = 0 (not a qualifying event)
FileC ==
  [name |-> "Streaming_History_Audio_2.json", kind |-> "audio",
   size |-> 1024,
   parses |-> TRUE,
   json |-> << Ev(Dec31, 0, "t4") >>]
\* a large file that is not valid JSON
FileBad ==
  [name |-> "Streaming_History_Audio_3.json", kind |-> "audio",
   size |-> 2 * MAX_CHUNK_SIZE,
   parses |-> FALSE, json |-> << >>]

\* what the user drops or selects
Selections ==
  { <<FileDsStore>>, <<FileC>>, <<FileDsStore, FileA, FileB>>, <<FileA, FileBad>> }

\* ------------------------------------------------ backend (from the spec)
\* qualifying-event filter of the Event Normalizer
Qualifying(e) == e.ms > 0

\* dates with qualifying events, in order of first occurrence
DatesOf(events) ==
  Distinct([i \in 1..Len(SelectSeq(events, Qualifying)) |->
              SelectSeq(events, Qualifying)[i].date])

\* DailyAggregate.total_seconds = round(sum(ms_played) / 1000), in thousandths
DailyTotalSeconds(events, date) ==
  LET onDate(e) == Qualifying(e) /\ e.date = date
      plays == SelectSeq(events, onDate)
  IN  1000 * MathRound(SumSeq([i \in 1..Len(plays) |-> plays[i].ms]))

\* the DailyAggregate series of a session: one entry per date
DailyAggregates(events) ==
  [i \in 1..Len(DatesOf(events)) |->
     [date |-> DatesOf(events)[i],
      total_seconds |-> DailyTotalSeconds(events, DatesOf(events)[i])]]

\* all-time statistics: six lists (type x metric) of entity names
StatKeys == {"artists", "songs", "albums"} \X {"time", "count"}
EmptyStats == [k \in StatKeys |-> << >>]
AllTimeStatsOf(events) ==
  LET q == SelectSeq(events, Qualifying)
  IN  [k \in StatKeys |-> Distinct([i \in 1..Len(q) |-> q[i].track])]

\* the tracks played on a date
TracksOn(events, date) ==
  LET onDate(e) == Qualifying(e) /\ e.date = date
      plays == SelectSeq(events, onDate)
  IN  [i \in 1..Len(plays) |-> plays[i].track]

\* ---------------------------------------------------------------- state
VARIABLES
  \* splitting of one file, stepwise (SpecChunk)
  cpc,          \* "start" | "split" | "done"
  cfile,        \* the file being split
  cchunks,      \* chunks pushed so far for cfile
  cidx,         \* the for loop's chunkIndex
  \* FolderUpload
  flow,         \* per handleFolderSelect invocation: its locals and position
  isUploading,  \* useState(false) of the mounted FolderUpload
  mountGen,     \* which FolderUpload instance is (or was last) mounted
  \* App
  data,         \* useState: [{date, count}]
  selectedYear, \* useState: "" or a year string
  selectedDate, \* useState: null or a date
  tracks,       \* useState: []
  allTimeStats, \* useState: null or the stats object
  chatbotOpen,  \* useState(false)
  tz,           \* the browser's offset from UTC, in hours
  storage,      \* sessionStorage: sessionId, spotifyData, selectedYear, allTimeStats
  \* requests sent and not yet answered
  inflight,
  \* backend
  nsessions,    \* sessions created so far
  bevents,      \* session id -> the session's stored events
  uploadReturns, \* what the `data` of an /upload response holds
  \* history
  sent,         \* (endpoint, session id header) of every request sent
  clearedView,  \* handleClearData ran and no upload has completed since
  dataFrom,     \* session whose completed upload App's data came from
  clearSettled, \* outcomes of the /clear_data requests that have settled
  \* Chatbot
  open,         \* the open prop
  messages,     \* useState: the bubbles
  chat,         \* the running handleSend: its locals and position
  nsends,       \* handleSend invocations so far
  lastQuery,    \* history: the /chatbot/query request of the running handleSend
  \* AllTimeStats
  statsProp,    \* the data prop: type -> metric -> top-N list
  metrics,      \* App's useState: type -> "time" | "count"
  enrichedList, \* useState enrichedSongs / enrichedAlbums / enrichedArtists
  loadingList,  \* useState loadingSongs / loadingAlbums / loadingArtists
  rounds,       \* running fetchImages / fetchAlbumImages / fetchArtistImages
  nclicks,      \* clicks on a metric button that changed the metric
  lastRound     \* history: per type, the round whose continuation ran last

cvars == <<cpc, cfile, cchunks, cidx>>
fvars == <<flow, isUploading, mountGen>>
avars == <<data, selectedYear, selectedDate, tracks, allTimeStats, chatbotOpen, storage>>
bvars == <<nsessions, bevents, uploadReturns>>
hvars == <<sent, clearedView, dataFrom, clearSettled>>
uvars == <<fvars, avars, tz, inflight, bvars, hvars>>
qvars == <<open, messages, chat, nsends, lastQuery>>
svars == <<statsProp, metrics, enrichedList, loadingList, rounds, nclicks, lastRound>>
vars == <<cvars, uvars, qvars, svars>>

Flows == 1..MaxFlows
\* the backend's session ids, in order of creation
SessionIdOf(n) == ToString(n)
SessionIds == { SessionIdOf(n) : n \in 1..MaxFlows }
TimeZones == {-5, 0}
\* the daily entries of the session after the commit, or of the chunk's records
UploadModes == {"session", "chunk"}

IdleFlow ==
  [ pc |-> "idle", validFiles |-> << >>, session |-> "none", sessionId |-> None,
    chunks |-> << >>,
    chunkIndex |-> 0, allData |-> << >>, gen |-> 0, result |-> "none",
    \* history: how POST /session ended, the X- headers of the uploads sent,
    \* the calls of onUploadComplete, the OK responses to uploads
    log |-> << >>, completeCalls |-> 0, okResponses |-> 0,
    completeThrew |-> FALSE ]

EmptyStorage ==
  [ sessionId |-> None, spotifyData |-> None, selectedYear |-> None,
    allTimeStats |-> None ]

\* the upload variables before any user action (a fresh tab: empty sessionStorage)
UploadInit ==
  /\ flow = [f \in Flows |-> IdleFlow]
  /\ isUploading = FALSE
  /\ mountGen = 1
  /\ data = << >>
  /\ selectedYear = ""
  /\ selectedDate = None
  /\ tracks = << >>
  /\ allTimeStats = None
  /\ chatbotOpen = FALSE
  /\ storage = EmptyStorage
  /\ inflight = {}
  /\ nsessions = 0
  /\ bevents = [s \in SessionIds |-> << >>]
  /\ sent = {}
  /\ clearedView = FALSE
  /\ dataFrom = None
  /\ clearSettled = {}

\* clicks on metric buttons modelled
MaxMetricClicks == 2

\* AllTimeStats: the three lists and the metric of each
Types == {"songs", "albums", "artists"}
Metrics == {"time", "count"}

\* two EntityAggregate entries; "a" leads by time, "b" by play count
EntityA == [name |-> "a", ms_played |-> 7200000, play |-> 1]
EntityB == [name |-> "b", ms_played |-> 3600000, play |-> 5]

\* the stats objects handed to AllTimeStats as `data`
StatsProps ==
  { [t \in Types |-> [time |-> <<EntityA, EntityB>>, count |-> <<EntityB, EntityA>>]],
    [t \in Types |-> [time |-> <<EntityA, EntityB>>, count |-> <<EntityB>>]] }

\* an AllTimeStats that is not rendered
StatsIdle ==
  /\ statsProp = [t \in Types |-> [time |-> << >>, count |-> << >>]]
  /\ metrics = [t \in Types |-> "time"]
  /\ enrichedList = [t \in Types |-> << >>]
  /\ loadingList = [t \in Types |-> TRUE]
  /\ rounds = {}
  /\ nclicks = 0
  /\ lastRound = [t \in Types |-> None]

\* the greeting bubble of useState([...]) (Chatbot.jsx:293-304)
Greeting == [sender |-> "bot", text |-> "Hi! I can help you with your Spotify stats. ..."]
IdleChat == [pc |-> "idle", userMsg |-> None, parsed |-> None, data |-> None]

\* a Chatbot that is not shown
ChatIdle ==
  /\ open = FALSE
  /\ messages = <<Greeting>>
  /\ chat = IdleChat
  /\ nsends = 0
  /\ lastQuery = None

\* ------------------------------------------------- specification SpecChunk
\* one file of any record count and size run through the splitting loop
ChunkSizes ==
  { MAX_CHUNK_SIZE - 1, MAX_CHUNK_SIZE } \cup
  UNION { { k * MAX_CHUNK_SIZE + 1, (k + 1) * MAX_CHUNK_SIZE } : k \in 1..MaxSizeFactor }

\* how a file's bytes are spread over its n records: evenly, or nearly all of
\* them in the first record; the text is compact JSON of at most `size` bytes
RecordBytes(size, n, spread, i) ==
  LET payload == size - 2 - (n - 1)
  IN  IF spread = "even" THEN payload \div n
      ELSE IF i = 1 THEN payload - (n - 1) ELSE 1

ChunkFiles ==
  { [name |-> "a.json", kind |-> "audio", size |-> s, parses |-> TRUE,
      json |-> [i \in 1..n |-> [id |-> i, bytes |-> RecordBytes(s, n, spread, i)]]] :
      s \in ChunkSizes, n \in 0..MaxRecords, spread \in {"even", "skewed"} }

ChunkIdle ==
  /\ cpc = "done"
  /\ cfile = FileA
  /\ cchunks = << >>
  /\ cidx = 0

ChunkInit ==
  /\ cpc = "start"
  /\ cfile \in ChunkFiles
  /\ cchunks = << >>
  /\ cidx = 0
  /\ UploadInit
  /\ tz = 0
  /\ uploadReturns = "session"
  /\ ChatIdle
  /\ StatsIdle

\* if (file.size <= MAX_CHUNK_SIZE) chunks.push([{file, ... totalChunks: 1}])
SplitSmall ==
  /\ cpc = "start"
  /\ ~NeedsSplit(cfile)
  /\ cchunks' = <<WholeFileChunk(cfile)>>
  /\ cpc' = "done"
  /\ UNCHANGED <<cfile, cidx, uvars, qvars, svars>>

\* else: read and parse, enter the loop
SplitBegin ==
  /\ cpc = "start"
  /\ NeedsSplit(cfile)
  /\ cpc' = "split"
  /\ UNCHANGED <<cfile, cchunks, cidx, uvars, qvars, svars>>

\* for (let chunkIndex = 0; chunkIndex < totalChunks; chunkIndex++)
SplitStep ==
  /\ cpc = "split"
  /\ cidx < TotalChunks(cfile)
  /\ cchunks' = Append(cchunks, FileChunk(cfile, TotalChunks(cfile), cidx))
  /\ cidx' = cidx + 1
  /\ UNCHANGED <<cpc, cfile, uvars, qvars, svars>>

SplitEnd ==
  /\ cpc = "split"
  /\ cidx >= TotalChunks(cfile)
  /\ cpc' = "done"
  /\ UNCHANGED <<cfile, cchunks, cidx, uvars, qvars, svars>>

ChunkNext == SplitSmall \/ SplitBegin \/ SplitStep \/ SplitEnd

SpecChunk == ChunkInit /\ [][ChunkNext]_vars

\* --------------------------------------------------- requests and effects
\* a request just sent; answer is "pending" until the network gives up on it
Req(ep, f, sid, hdr, body, date) ==
  [ep |-> ep, flow |-> f, sid |-> sid, hdr |-> hdr, body |-> body, date |-> date,
   answer |-> "pending"]

\* setIsUploading(v) called by invocation f: a state update of an unmounted
\* FolderUpload instance (unmounted since, or replaced by a new mount) is dropped
SetIsUploading(f, v, mountedAfter) ==
  IF mountedAfter /\ flow[f].gen = mountGen THEN v ELSE
  IF mountedAfter THEN isUploading ELSE FALSE

\* FolderUpload is rendered only while data.length === 0 (App.jsx:168)
UploadViewShown == data = << >>

\* "X-Session-ID": sessionId -- the const read from the POST /session response
\* (st is sessionStorage at the time of the fetch)
UploadSessionIdMutStorage(fl, st) == st.sessionId[1]
UploadSessionId(fl, st) == fl.sessionId[1]

\* "X-File-Chunk-Index": fileInfo.chunkIndex.toString()
FileChunkIndexHeaderMutLoopIndex(chunkIndex, fileInfo) == ToString(chunkIndex)
FileChunkIndexHeader(chunkIndex, fileInfo) == ToString(fileInfo.chunkIndex)

\* "X-Chunk-Index": chunkIndex.toString()
ChunkIndexHeaderMutOneBased(chunkIndex) == ToString(chunkIndex + 1)
ChunkIndexHeader(chunkIndex) == ToString(chunkIndex)

\* the fetch(`${API_BASE_URL}/upload`, ...) of loop iteration fl.chunkIndex
UploadRequest(f, fl, st) ==
  LET fileInfo == fl.chunks[fl.chunkIndex + 1]
  IN  Req("/upload", f, Some(UploadSessionId(fl, st)),
          Some([ XSessionID |-> UploadSessionId(fl, st),
                 XChunkIndex |-> ChunkIndexHeader(fl.chunkIndex),
                 XTotalChunks |-> ToString(Len(fl.chunks)),
                 XOriginalFilename |-> fileInfo.originalName,
                 XFileChunkIndex |-> FileChunkIndexHeader(fl.chunkIndex, fileInfo),
                 XFileTotalChunks |-> ToString(fileInfo.totalChunks) ]),
          fileInfo.file.json, None)

Sent(r) == [ep |-> r.ep, sid |-> r.sid]

\* catch (err) {...} finally { setIsUploading(false) }: the invocation ends
FlowFails(f, fl) ==
  /\ flow' = [flow EXCEPT ![f] = [fl EXCEPT !.pc = "done", !.result = "failed"]]
  /\ isUploading' = SetIsUploading(f, FALSE, UploadViewShown)

\* lines 98-217 after the session is stored: build the chunks and send the first
StartUploads(f, fl, st) ==
  IF ChunkingThrows(fl.validFiles)
  THEN /\ FlowFails(f, fl)
       /\ inflight' = { r \in inflight : r.flow # f \/ r.ep \notin {"/session", "/upload"} }
       /\ UNCHANGED sent
  ELSE LET fl2 == [fl EXCEPT !.chunks = BuildChunks(fl.validFiles), !.chunkIndex = 0,
                             !.pc = "awaitUpload"]
           req == UploadRequest(f, fl2, st)
       IN  /\ flow' = [flow EXCEPT ![f] = [fl2 EXCEPT !.log = Append(fl2.log, req.hdr[1])]]
           /\ inflight' =
                { r \in inflight : r.flow # f \/ r.ep \notin {"/session", "/upload"} }
                  \cup {req}
           /\ sent' = sent \cup {Sent(req)}
           /\ UNCHANGED isUploading

\* ------------------------------------------------ FolderUpload: the flow
\* handleFolderSelect(files) up to its first await (lines 10-82)
HandleFolderSelect(f, files) ==
  /\ UploadViewShown
  /\ flow[f].pc = "idle"
  /\ \A g \in Flows : g < f => flow[g].pc # "idle"
  /\ LET validFiles == ValidFiles(files)
         fl == [flow[f] EXCEPT !.validFiles = validFiles, !.gen = mountGen]
     IN  IF validFiles = << >>
         THEN \* setIsUploading(false); alert(...); return
              /\ flow' = [flow EXCEPT ![f] = [fl EXCEPT !.pc = "done", !.result = "novalid"]]
              /\ isUploading' = FALSE
              /\ UNCHANGED <<inflight, sent>>
         ELSE \* setIsUploading(true); await fetch(`${API_BASE_URL}/session`)
              /\ flow' = [flow EXCEPT ![f] = [fl EXCEPT !.pc = "awaitSession"]]
              /\ isUploading' = TRUE
              /\ inflight' = inflight \cup {Req("/session", f, None, None, << >>, None)}
              /\ sent' = sent \cup {[ep |-> "/session", sid |-> None]}
  /\ UNCHANGED <<cvars, svars, qvars, mountGen, avars, tz, bvars, clearedView, dataFrom, clearSettled>>

\* const sessionId = sessionData.session_id: the id of the response, whatever
\* sessionStorage (st) holds from an earlier upload
NewSessionIdMutReuse(session_id, st) ==
  IF st.sessionId # None THEN st.sessionId[1] ELSE session_id
NewSessionId(session_id, st) == session_id

\* POST /session answered OK: sessionStorage.setItem("sessionId", sessionId),
\* then either await file.text() of a large file or straight to the first upload
SessionOk(f) ==
  /\ flow[f].pc = "awaitSession"
  /\ \E r \in inflight : r.ep = "/session" /\ r.flow = f
  /\ nsessions' = nsessions + 1
  /\ LET sessionId == NewSessionId(SessionIdOf(nsessions + 1), storage)
         fl == [flow[f] EXCEPT !.session = "ok", !.sessionId = Some(sessionId)]
     IN  /\ storage' = [storage EXCEPT !.sessionId = Some(sessionId)]
         /\ IF \E i \in 1..Len(fl.validFiles) : NeedsSplit(fl.validFiles[i])
            THEN /\ flow' = [flow EXCEPT ![f] = [fl EXCEPT !.pc = "chunking"]]
                 /\ inflight' = { r \in inflight : ~(r.ep = "/session" /\ r.flow = f) }
                 /\ UNCHANGED <<isUploading, sent>>
            ELSE StartUploads(f, fl, storage')
  /\ UNCHANGED <<cvars, svars, qvars, mountGen, data, selectedYear, selectedDate, tracks, allTimeStats,
                 chatbotOpen, tz, bevents, uploadReturns, clearedView, dataFrom, clearSettled>>

\* if (!sessionResponse.ok) throw ...: the session check of lines 84-88
SessionCheckThrowsMutNoCheck(outcome) == outcome = "rejected"
SessionCheckThrows(outcome) == outcome \in {"nonOk", "rejected"}

\* POST /session answered with a non-OK status, or the fetch rejected
SessionFail(f) ==
  /\ flow[f].pc = "awaitSession"
  /\ \E r \in inflight : r.ep = "/session" /\ r.flow = f
  /\ \E outcome \in {"nonOk", "rejected"} :
       LET fl == [flow[f] EXCEPT !.session = "failed"]
       IN  IF SessionCheckThrows(outcome)
           THEN /\ FlowFails(f, fl)
                /\ inflight' = { r \in inflight : ~(r.ep = "/session" /\ r.flow = f) }
                /\ UNCHANGED sent
           ELSE \* not thrown: sessionData.session_id of an error body is undefined
                StartUploads(f, [fl EXCEPT !.sessionId = Some("undefined")], storage)
  /\ UNCHANGED <<cvars, svars, qvars, mountGen, avars, tz, bvars, clearedView, dataFrom, clearSettled>>

\* the awaits of file.text() are over: lines 109-177, then the first upload
ChunkingDone(f) ==
  /\ flow[f].pc = "chunking"
  /\ StartUploads(f, flow[f], storage)
  /\ UNCHANGED <<cvars, svars, qvars, mountGen, avars, tz, bvars, clearedView, dataFrom, clearSettled>>

\* ------------------------------------------------------------ App helpers
\* dataArray.sort(...).map(entry => ({date, count: Math.round(total_seconds)}))
Formatted(dataArray) ==
  LET sorted == SortByDate(dataArray)
  IN  [i \in 1..Len(sorted) |->
         [date |-> sorted[i].date, count |-> MathRound(sorted[i].total_seconds)]]

\* [...new Set(formatted.map(d => new Date(d.date).getFullYear()))]
YearsOf(formatted) ==
  Distinct([i \in 1..Len(formatted) |-> GetFullYear(formatted[i].date, tz)])

\* data.filter(d => new Date(d.date).getFullYear().toString() === selectedYear)
FilteredData ==
  LET inYear(d) == ToString(GetFullYear(d.date, tz)) = selectedYear
  IN  SelectSeq(data, inYear)

\* the three sessionStorage.removeItem calls
RemoveCached(st) ==
  [st EXCEPT !.spotifyData = None, !.allTimeStats = None, !.selectedYear = None]

CreatedSessions == { SessionIdOf(n) : n \in 1..nsessions }

\* the request of handleUploadComplete: headers {"X-Session-ID": sessionId}
StatsRequest(f, sessionId) == Req("/all_time_stats", f, Some(sessionId), None, << >>, None)

\* years[years.length - 1].toString() with no year: years[-1] is undefined and
\* the call throws a TypeError out of handleUploadComplete
HandleUploadCompleteThrows(allData) == YearsOf(Formatted(allData)) = << >>

\* handleUploadComplete({data: allData}) up to its await (App.jsx:56-90), called
\* by invocation f, with the useEffect hooks that follow the render; `rest` is
\* what stays in flight
HandleUploadComplete(f, allData, rest) ==
  LET st == RemoveCached(storage)
      formatted == Formatted(allData)
      years == YearsOf(formatted)
  IN  /\ data' = formatted
      /\ clearedView' = FALSE
      /\ dataFrom' = flow[f].sessionId
      /\ IF HandleUploadCompleteThrows(allData)
         THEN \* setData([]) has run, setSelectedYear and the fetch have not
              /\ storage' = st
              /\ inflight' = rest
              /\ UNCHANGED <<selectedYear, sent>>
         ELSE LET year == ToString(years[Len(years)])
                  st2 == [st EXCEPT
                            !.spotifyData = Some(formatted),
                            !.selectedYear =
                               IF year # selectedYear THEN Some(year) ELSE @]
              IN  /\ selectedYear' = year
                  /\ storage' = st2
                  /\ IF st.sessionId = None
                     THEN /\ inflight' = rest
                          /\ UNCHANGED sent
                     ELSE /\ inflight' = rest \cup {StatsRequest(f, st.sessionId[1])}
                          /\ sent' = sent \cup {Sent(StatsRequest(f, st.sessionId[1]))}

\* ------------------------------------------- FolderUpload: chunk responses
\* allData = allData.concat(chunkData.data)
Accumulate(allData, chunkData) == allData \o chunkData

\* the daily entries a chunk response carries in `data`: the session's daily
\* aggregates after the commit, or those of the chunk's own records
UploadResponse(stored, body) ==
  IF uploadReturns = "session" THEN DailyAggregates(stored) ELSE DailyAggregates(body)

\* POST /upload answered OK: the backend has committed the chunk's records and
\* returns daily entries; next chunk, or onUploadComplete
UploadOk(f) ==
  /\ flow[f].pc = "awaitUpload"
  /\ \E r \in inflight :
       /\ r.ep = "/upload" /\ r.flow = f /\ r.answer = "pending"
       /\ r.sid[1] \in CreatedSessions
       /\ LET sid == r.sid[1]
              stored == bevents[sid] \o r.body
              chunkData == UploadResponse(stored, r.body)
              fl == [flow[f] EXCEPT !.allData = Accumulate(@, chunkData),
                                   !.okResponses = @ + 1]
              rest == inflight \ {r}
          IN  /\ bevents' = [bevents EXCEPT ![sid] = stored]
              /\ IF fl.chunkIndex + 1 < Len(fl.chunks)
                 THEN LET fl2 == [fl EXCEPT !.chunkIndex = @ + 1]
                          req == UploadRequest(f, fl2, storage)
                      IN  /\ flow' = [flow EXCEPT ![f] =
                                        [fl2 EXCEPT !.log = Append(fl2.log, req.hdr[1])]]
                          /\ inflight' = rest \cup {req}
                          /\ sent' = sent \cup {Sent(req)}
                          /\ UNCHANGED <<isUploading, data, selectedYear, storage,
                                         clearedView, dataFrom>>
                 ELSE /\ HandleUploadComplete(f, fl.allData, rest)
                      /\ flow' = [flow EXCEPT ![f] =
                                    [fl EXCEPT !.pc = "done", !.result = "ok",
                                               !.completeCalls = @ + 1,
                                               !.completeThrew =
                                                  HandleUploadCompleteThrows(fl.allData)]]
                      /\ isUploading' =
                           SetIsUploading(f, FALSE, Formatted(fl.allData) = << >>)
  /\ UNCHANGED <<cvars, svars, qvars, mountGen, selectedDate, tracks, allTimeStats, chatbotOpen, tz,
                 nsessions, uploadReturns, clearSettled>>

\* POST /upload answered with a non-OK status, or the fetch rejected: nothing
\* is committed, the flow throws into its catch
UploadFail(f) ==
  /\ flow[f].pc = "awaitUpload"
  /\ \E r \in inflight :
       /\ r.ep = "/upload" /\ r.flow = f /\ r.answer = "pending"
       /\ inflight' = inflight \ {r}
  /\ FlowFails(f, flow[f])
  /\ UNCHANGED <<cvars, svars, qvars, mountGen, avars, tz, bvars, hvars>>

\* the POST /upload of invocation f will never be answered: the promise of
\* await fetch(...) stays pending (the fetch has no signal and no timer)
UploadUnanswered(f) ==
  /\ flow[f].pc = "awaitUpload"
  /\ \E r \in inflight :
       /\ r.ep = "/upload" /\ r.flow = f /\ r.answer = "pending"
       /\ inflight' = (inflight \ {r}) \cup {[r EXCEPT !.answer = "never"]}
  /\ UNCHANGED <<cvars, svars, qvars, fvars, avars, tz, bvars, hvars>>

\* ------------------------------------------------------------------- App
\* GET /all_time_stats answered: setAllTimeStats(stats), then the useEffect
StatsOk ==
  /\ \E r \in inflight :
       /\ r.ep = "/all_time_stats"
       /\ r.sid[1] \in CreatedSessions
       /\ inflight' = inflight \ {r}
       /\ allTimeStats' = Some(AllTimeStatsOf(bevents[r.sid[1]]))
       /\ storage' = [storage EXCEPT !.allTimeStats = allTimeStats']
  /\ UNCHANGED <<cvars, svars, qvars, fvars, data, selectedYear, selectedDate, tracks, chatbotOpen,
                 tz, bvars, hvars>>

\* the fetch of /all_time_stats rejected: catch, console.error
StatsFail ==
  /\ \E r \in inflight :
       /\ r.ep = "/all_time_stats"
       /\ inflight' = inflight \ {r}
  /\ UNCHANGED <<cvars, svars, qvars, fvars, avars, tz, bvars, hvars>>

\* the state handleClearData resets (App.jsx:124-132)
ClearedDataMutKeep == data
ClearedData == << >>
ClearedStats == Some(EmptyStats)

\* handleClearData (App.jsx:99-133), then the render: FolderUpload mounts anew
HandleClearData ==
  /\ ~UploadViewShown
  /\ LET st == RemoveCached(storage)
     IN  /\ IF st.sessionId # None
            THEN LET req == Req("/clear_data", 0, st.sessionId, None, << >>, None)
                 IN  /\ inflight' = inflight \cup {req}
                     /\ sent' = sent \cup {Sent(req)}
            ELSE UNCHANGED <<inflight, sent>>
         /\ data' = ClearedData
         /\ selectedYear' = ""
         /\ allTimeStats' = ClearedStats
         /\ chatbotOpen' = FALSE
         /\ storage' = [st EXCEPT !.allTimeStats = ClearedStats]
  /\ mountGen' = mountGen + 1
  /\ isUploading' = FALSE
  /\ clearedView' = TRUE
  /\ dataFrom' = None
  /\ UNCHANGED <<cvars, svars, qvars, flow, selectedDate, tracks, tz, bvars, clearSettled>>

\* POST /clear_data answered OK: the backend has purged the session
ClearOk ==
  /\ \E r \in inflight :
       /\ r.ep = "/clear_data"
       /\ r.sid[1] \in CreatedSessions
       /\ inflight' = inflight \ {r}
       /\ bevents' = [bevents EXCEPT ![r.sid[1]] = << >>]
       /\ clearSettled' = clearSettled \cup {[sid |-> r.sid[1], ok |-> TRUE]}
  /\ UNCHANGED <<cvars, svars, qvars, fvars, avars, tz, nsessions, uploadReturns, sent, clearedView,
                 dataFrom>>

\* POST /clear_data failed (backend error or rejected fetch): .catch logs it
ClearFail ==
  /\ \E r \in inflight :
       /\ r.ep = "/clear_data"
       /\ inflight' = inflight \ {r}
       /\ clearSettled' = clearSettled \cup {[sid |-> r.sid[1], ok |-> FALSE]}
  /\ UNCHANGED <<cvars, svars, qvars, fvars, avars, tz, bvars, sent, clearedView, dataFrom>>

\* handleDateClick(value) for a heatmap cell holding a value (App.jsx:135-139)
HandleDateClick ==
  /\ ~UploadViewShown
  /\ \E i \in 1..Len(FilteredData) :
       LET value == FilteredData[i]
           req == Req("/tracks", 0, None, None, << >>, Some(value.date))
       IN  /\ selectedDate' = Some(value.date)
           /\ inflight' = inflight \cup {req}
           /\ sent' = sent \cup {Sent(req)}
  /\ UNCHANGED <<cvars, svars, qvars, fvars, data, selectedYear, tracks, allTimeStats, chatbotOpen,
                 storage, tz, bvars, clearedView, dataFrom, clearSettled>>

\* GET /tracks/{date} answered: setTracks(data); the request names no session,
\* the backend answers from some session
TracksOk ==
  /\ \E r \in inflight :
       /\ r.ep = "/tracks"
       /\ inflight' = inflight \ {r}
       /\ \E s \in CreatedSessions : tracks' = TracksOn(bevents[s], r.date[1])
  /\ UNCHANGED <<cvars, svars, qvars, fvars, data, selectedYear, selectedDate, allTimeStats,
                 chatbotOpen, storage, tz, bvars, hvars>>

\* the fetch of /tracks/{date} rejected: setTracks([])
TracksFail ==
  /\ \E r \in inflight :
       /\ r.ep = "/tracks"
       /\ inflight' = inflight \ {r}
  /\ tracks' = << >>
  /\ UNCHANGED <<cvars, svars, qvars, fvars, data, selectedYear, selectedDate, allTimeStats,
                 chatbotOpen, storage, tz, bvars, hvars>>

\* onClose of TrackListModal (App.jsx:662): setSelectedDate(null); tracks stays
CloseTrackList ==
  /\ ~UploadViewShown
  /\ selectedDate # None
  /\ selectedDate' = None
  /\ UNCHANGED inflight
  /\ UNCHANGED <<cvars, svars, qvars, fvars, data, selectedYear, tracks, allTimeStats, chatbotOpen,
                 storage, tz, bvars, hvars>>

\* --------------------------------------------------------------- Chatbot
\* a question: its lower-cased words, and what it supplies
Question(words, song, artist, album) ==
  [words |-> words, song |-> song, artist |-> artist, album |-> album]

\* the advertised form "... the song [Song Name] by [Artist Name] in [Year]"
QSongByArtist ==
  Question(<<"how", "many", "times", "did", "i", "listen", "to", "the", "song",
             "hello", "by", "adele", "in", "2020">>,
           Some("hello"), Some("adele"), None)
QSongByTheArtist ==
  Question(<<"how", "many", "times", "did", "i", "listen", "to", "the", "song",
             "hello", "by", "the", "artist", "adele">>,
           Some("hello"), Some("adele"), None)
QSongOnAlbum ==
  Question(<<"how", "many", "times", "did", "i", "listen", "to", "the", "song",
             "hello", "on", "the", "album", "25">>,
           Some("hello"), None, Some("25"))
QArtist ==
  Question(<<"how", "many", "hours", "did", "i", "listen", "to", "adele">>,
           None, Some("adele"), None)
Questions == {QSongByArtist, QSongByTheArtist, QSongOnAlbum, QArtist}

\* msgLower.includes(word)
MsgIncludes(question, word) ==
  \E i \in 1..Len(question.words) : question.words[i] = word

\* what the external interpreter may put in each field (a field may be absent)
Intents ==
  [ entity_type : {None, Some("song"), Some("artist"), Some("playlist")},
    name : {Some("hello")},
    artist : {None, Some("adele")},
    album : {None, Some("25")},
    metric : {Some("count"), Some("vibes")},
    timeframe : {Some("2020"), Some("last year")},
    time_amount : {None, Some("days")} ]

\* how puter.ai.chat answers: a string or {message: {content: string}} whose
\* text holds a JSON object ("json"), holds none ("nojson") or holds braces
\* that do not parse ("badjson"); any other object; a non-object; a rejection
ResponseShapes ==
  ({"string", "messageContent"} \X {"json", "nojson", "badjson"})
    \cup {<<"object", "json">>, <<"other", "json">>, <<"rejected", "json">>}

\* lines 354-368: TRUE when parsing the response throws
ParseThrows(shape) ==
  \/ shape[1] \in {"other", "rejected"}
  \/ shape[1] \in {"string", "messageContent"} /\ shape[2] # "json"

\* lines 370-376: artist and album of a song intent are nulled unless the
\* message contains the word "artist" / "album"
PostProcess(question, parsed) ==
  LET p1 == IF ~MsgIncludes(question, "artist") /\ parsed.entity_type = Some("song")
            THEN [parsed EXCEPT !.artist = None] ELSE parsed
  IN  IF ~MsgIncludes(question, "album") /\ p1.entity_type = Some("song")
      THEN [p1 EXCEPT !.album = None] ELSE p1

\* the fetch of lines 378-382: headers {"Content-Type": "application/json"}
ChatQuery(question, interpreted, parsed) ==
  [ ep |-> "/chatbot/query", sid |-> None, body |-> parsed,
    question |-> question, interpreted |-> interpreted ]

Apology ==
  [sender |-> "bot",
   text |-> "Sorry, I couldn't understand or process your query. Please try again."]

\* handleSend up to await window.puter.ai.chat(prompt) (lines 342-352)
HandleSend ==
  /\ open
  /\ chat.pc = "idle"
  /\ \E q \in Questions :
       /\ messages' = Append(messages, [sender |-> "user", text |-> "userMsg"])
       /\ chat' = [IdleChat EXCEPT !.pc = "interpreting", !.userMsg = Some(q)]
  /\ nsends' = nsends + 1
  /\ UNCHANGED <<cvars, svars, uvars, open, lastQuery>>

\* the interpreter answered and an intent came out: post-process, send it
InterpreterAnswers ==
  /\ chat.pc = "interpreting"
  /\ \E shape \in ResponseShapes, interpreted \in Intents :
       /\ ~ParseThrows(shape)
       /\ LET parsed == PostProcess(chat.userMsg[1], interpreted)
          IN  /\ chat' = [chat EXCEPT !.pc = "querying", !.parsed = Some(parsed)]
              /\ lastQuery' = Some(ChatQuery(chat.userMsg[1], interpreted, parsed))
  /\ UNCHANGED <<cvars, svars, uvars, open, messages, nsends>>

\* the interpreter rejected, or its answer holds no parsable JSON object: catch
InterpreterFails ==
  /\ chat.pc = "interpreting"
  /\ \E shape \in ResponseShapes : ParseThrows(shape)
  /\ messages' = Append(messages, Apology)
  /\ chat' = IdleChat
  /\ lastQuery' = None
  /\ UNCHANGED <<cvars, svars, uvars, open, nsends>>

\* /chatbot/query answered: data.response is the backend's text or undefined
QueryAnswers ==
  /\ chat.pc = "querying"
  /\ \E response \in {"backend text", "undefined"} :
       chat' = [chat EXCEPT !.pc = "rephrasing", !.data = Some(response)]
  /\ UNCHANGED <<cvars, svars, uvars, open, messages, nsends, lastQuery>>

\* the fetch rejected or res.json() threw: the outer catch
QueryFails ==
  /\ chat.pc = "querying"
  /\ messages' = Append(messages, Apology)
  /\ chat' = IdleChat
  /\ lastQuery' = None
  /\ UNCHANGED <<cvars, svars, uvars, open, nsends>>

\* the rephrasing call settled (lines 386-405)
RephraseSettles ==
  /\ chat.pc = "rephrasing"
  /\ \E improved \in {"string", "messageContent", "emptyObject", "null", "rejected"} :
       LET text ==
             CASE improved = "string" -> "improved text"
               [] improved = "messageContent" -> "improved text"
               \* improvedResponse.message?.content || data.response
               [] improved = "emptyObject" -> chat.data[1]
               \* null.message throws, a rejection throws: the inner catch
               [] OTHER -> chat.data[1]
       IN  messages' = Append(messages, [sender |-> "bot", text |-> text])
  /\ chat' = IdleChat
  /\ lastQuery' = None
  /\ UNCHANGED <<cvars, svars, uvars, open, nsends>>

\* ------------------------------------------------------------ AllTimeStats
\* what an image endpoint answers in image_url: null or a URL
ImageUrls == {None, Some("img")}

\* Promise.all(list.map(async item => ({...item, image_url: imgData.image_url}))):
\* one enriched entry per item, in the order of the list
EnrichMutReversed(items, imgs) ==
  [i \in 1..Len(items) |->
     [name |-> items[Len(items) + 1 - i].name,
      ms_played |-> items[Len(items) + 1 - i].ms_played,
      play |-> items[Len(items) + 1 - i].play,
      image_url |-> imgs[i]]]
Enrich(items, imgs) ==
  [i \in 1..Len(items) |->
     [name |-> items[i].name, ms_played |-> items[i].ms_played, play |-> items[i].play,
      image_url |-> imgs[i]]]

\* the entities of a displayed list: its entries without image_url
Entities(list) ==
  [i \in 1..Len(list) |->
     [name |-> list[i].name, ms_played |-> list[i].ms_played, play |-> list[i].play]]

\* one run of the effect's async function: it closes over the list
\* data[type][metrics[type]] of the render that started it
FetchRound(id, type, metric) ==
  [id |-> id, type |-> type, metric |-> metric, items |-> statsProp[type][metric]]

\* {allTimeStats && <AllTimeStats data={allTimeStats} .../>}: the component is
\* rendered with a stats object
StatsShown == statsProp \in StatsProps

\* the user clicks the other metric button of a card: setMetrics, and the
\* effect of that type runs again: setLoading(true), a new fetch round; the
\* rounds still running are not cancelled
ToggleMetric(type, metric) ==
  /\ StatsShown
  /\ nclicks < MaxMetricClicks
  /\ metrics[type] # metric
  /\ metrics' = [metrics EXCEPT ![type] = metric]
  /\ loadingList' = [loadingList EXCEPT ![type] = TRUE]
  /\ rounds' = rounds \cup {FetchRound(nclicks + 1, type, metric)}
  /\ nclicks' = nclicks + 1
  /\ UNCHANGED <<cvars, uvars, qvars, statsProp, enrichedList, lastRound>>

\* every image request of a round was answered and every image settled:
\* setEnriched(enriched); setLoading(false)
FetchRoundSucceeds(r) ==
  /\ r \in rounds
  /\ \E imgs \in [1..Len(r.items) -> ImageUrls] :
       enrichedList' = [enrichedList EXCEPT ![r.type] = Enrich(r.items, imgs)]
  /\ loadingList' = [loadingList EXCEPT ![r.type] = FALSE]
  /\ rounds' = rounds \ {r}
  /\ lastRound' = [lastRound EXCEPT ![r.type] = Some([metric |-> r.metric, outcome |-> "ok"])]
  /\ UNCHANGED <<cvars, uvars, qvars, statsProp, metrics, nclicks>>

\* an image request of the round failed: catch, setEnriched(the un-enriched
\* list of the round's closure); setLoading(false)
FetchRoundFails(r) ==
  /\ r \in rounds
  /\ r.items # << >>
  /\ enrichedList' = [enrichedList EXCEPT ![r.type] = r.items]
  /\ loadingList' = [loadingList EXCEPT ![r.type] = FALSE]
  /\ rounds' = rounds \ {r}
  /\ lastRound' =
       [lastRound EXCEPT ![r.type] = Some([metric |-> r.metric, outcome |-> "failed"])]
  /\ UNCHANGED <<cvars, uvars, qvars, statsProp, metrics, nclicks>>

\* ------------------------------------------------ specification SpecUpload
\* FolderUpload under overlapping handleFolderSelect invocations (the upload
\* area stays clickable while an upload runs), up to the dashboard
Init ==
  /\ ChunkIdle
  /\ UploadInit
  /\ tz \in TimeZones
  /\ uploadReturns \in UploadModes
  /\ ChatIdle
  /\ StatsIdle

UploadNext ==
  \/ \E f \in Flows, files \in Selections : HandleFolderSelect(f, files)
  \/ \E f \in Flows : SessionOk(f)
  \/ \E f \in Flows : SessionFail(f)
  \/ \E f \in Flows : ChunkingDone(f)
  \/ \E f \in Flows : UploadOk(f)
  \/ \E f \in Flows : UploadFail(f)
  \/ StatsOk
  \/ StatsFail

SpecUpload == Init /\ [][UploadNext]_vars

\* -------------------------------------------- specification SpecUploadLive
\* SpecUpload with uploads that may stay unanswered; every promise that can
\* settle does settle, and every continuation that can run does run
UploadLiveNext ==
  \/ UploadNext
  \/ \E f \in Flows : UploadUnanswered(f)

UploadFairness ==
  /\ \A f \in Flows :
       /\ WF_vars(SessionOk(f) \/ SessionFail(f))
       /\ WF_vars(ChunkingDone(f))
       /\ WF_vars(UploadOk(f) \/ UploadFail(f))
  /\ WF_vars(StatsOk \/ StatsFail)

SpecUploadLive == Init /\ [][UploadLiveNext]_vars /\ UploadFairness

\* ------------------------------------------------------ specification Spec
\* the app through uploads, the dashboard and Clear Data; here the user starts
\* an upload only when none is running
NoFlowRunning == \A g \in Flows : flow[g].pc \in {"idle", "done"}

Next ==
  \/ \E f \in Flows, files \in Selections :
       NoFlowRunning /\ HandleFolderSelect(f, files)
  \/ \E f \in Flows : SessionOk(f)
  \/ \E f \in Flows : SessionFail(f)
  \/ \E f \in Flows : ChunkingDone(f)
  \/ \E f \in Flows : UploadOk(f)
  \/ \E f \in Flows : UploadFail(f)
  \/ StatsOk
  \/ StatsFail
  \/ HandleClearData
  \/ ClearOk
  \/ ClearFail
  \/ HandleDateClick
  \/ TracksOk
  \/ TracksFail
  \/ CloseTrackList

Spec == Init /\ [][Next]_vars

\* ------------------------------------------------- specification SpecClear
\* Spec without the heatmap clicks: uploads, the dashboard and Clear Data
ClearNext ==
  \/ \E f \in Flows, files \in Selections :
       NoFlowRunning /\ HandleFolderSelect(f, files)
  \/ \E f \in Flows : SessionOk(f)
  \/ \E f \in Flows : SessionFail(f)
  \/ \E f \in Flows : ChunkingDone(f)
  \/ \E f \in Flows : UploadOk(f)
  \/ \E f \in Flows : UploadFail(f)
  \/ StatsOk
  \/ StatsFail
  \/ HandleClearData
  \/ ClearOk
  \/ ClearFail

SpecClear == Init /\ [][ClearNext]_vars

\* -------------------------------------------------- specification SpecChat
\* the Chatbot component shown (open = true), one question at a time
MaxSends == 2

ChatInit ==
  /\ ChunkIdle
  /\ UploadInit
  /\ tz = 0
  /\ uploadReturns = "session"
  /\ open = TRUE
  /\ messages = <<Greeting>>
  /\ chat = IdleChat
  /\ nsends = 0
  /\ lastQuery = None
  /\ StatsIdle

ChatNext ==
  \/ nsends < MaxSends /\ HandleSend
  \/ InterpreterAnswers
  \/ InterpreterFails
  \/ QueryAnswers
  \/ QueryFails
  \/ RephraseSettles

SpecChat == ChatInit /\ [][ChatNext]_vars

\* ------------------------------------------------- specification SpecStats
\* AllTimeStats mounted with a stats object: the three effects have run once
\* and their fetch rounds are outstanding
StatsInit ==
  /\ ChunkIdle
  /\ UploadInit
  /\ tz = 0
  /\ uploadReturns = "session"
  /\ ChatIdle
  /\ statsProp \in StatsProps
  /\ metrics = [t \in Types |-> "time"]
  /\ enrichedList = [t \in Types |-> << >>]
  /\ loadingList = [t \in Types |-> TRUE]
  /\ rounds = { FetchRound(0, t, "time") : t \in Types }
  /\ nclicks = 0
  /\ lastRound = [t \in Types |-> None]

StatsNext ==
  \/ \E t \in Types, m \in Metrics : ToggleMetric(t, m)
  \/ \E r \in rounds : FetchRoundSucceeds(r)
  \/ \E r \in rounds : FetchRoundFails(r)

SpecStats == StatsInit /\ [][StatsNext]_vars

\* ------------------------------------------------------------------ claims

\* C3: when a file larger than MAX_CHUNK_SIZE holding an array of n records
\* has been split into totalChunks >= 2 chunks, concatenating the chunks'
\* record arrays in increasing chunk index gives back exactly the original
\* array (every record in exactly one chunk, order preserved).
C3_SplitConcatIsOriginal ==
  (cpc = "done" /\ NeedsSplit(cfile)) =>
    /\ Len(cchunks) = TotalChunks(cfile)
    /\ TotalChunks(cfile) >= 2
    /\ \A i \in 1..Len(cchunks) : cchunks[i].chunkIndex = i - 1
    /\ Flatten([i \in 1..Len(cchunks) |-> cchunks[i].file.json]) = cfile.json

\* a split into 3 chunks of a 5-record file has finished (2 + 2 + 1 records)
C3_Witness ==
  /\ cpc = "done"
  /\ NeedsSplit(cfile)
  /\ Len(cfile.json) = 5
  /\ Len(cchunks) = 3
  /\ Len(cchunks[3].file.json) = 1

\* C1 (as claimed): every request for session data -- /tracks/{date},
\* /all_time_stats, /chatbot/query, /clear_data -- carries the session id.
SessionDataEndpoints == {"/tracks", "/all_time_stats", "/chatbot/query", "/clear_data"}
C1_SessionDataRequestsCarrySessionId ==
  /\ \A r \in sent : r.ep \in SessionDataEndpoints => r.sid # None
  /\ lastQuery # None => lastQuery[1].sid # None

\* C2: for every session id at most one POST /upload carrying it is in
\* flight, also when handleFolderSelect invocations overlap.
C2_OneUploadInFlightPerSession ==
  \A r1, r2 \in inflight :
    (r1.ep = "/upload" /\ r2.ep = "/upload" /\ r1.sid = r2.sid) => r1 = r2

\* two overlapping invocations each have an upload in flight
C2_Witness ==
  \E r1, r2 \in inflight :
    r1.ep = "/upload" /\ r2.ep = "/upload" /\ r1.flow # r2.flow

\* the upload requests invocation f sent for the file named name
UploadsOf(f, name) ==
  LET forFile(h) == h.XOriginalFilename = name
  IN  SelectSeq(flow[f].log, forFile)

\* C4: every POST /upload sent names a created session, one of the selected
\* files, and that file's chunk index and chunk count; in a flow whose
\* requests all succeeded a file with totalChunks = k gave rise to exactly k
\* requests, with X-File-Chunk-Index 0..k-1 once each and
\* X-File-Total-Chunks = k on each.
C4_UploadsTaggedPerFile ==
  \A f \in Flows :
    LET fl == flow[f]
        K(file) == IF NeedsSplit(file) THEN TotalChunks(file) ELSE 1
    IN  /\ \A i \in 1..Len(fl.log) :
             /\ fl.log[i].XSessionID \in CreatedSessions
             /\ \E j \in 1..Len(fl.validFiles) :
                  /\ fl.log[i].XOriginalFilename = fl.validFiles[j].name
                  /\ fl.log[i].XFileTotalChunks = ToString(K(fl.validFiles[j]))
                  /\ \E c \in 0..(K(fl.validFiles[j]) - 1) :
                       fl.log[i].XFileChunkIndex = ToString(c)
        /\ fl.result = "ok" =>
             \A j \in 1..Len(fl.validFiles) :
               LET file == fl.validFiles[j]
                   hs == UploadsOf(f, file.name)
               IN  /\ Len(hs) = K(file)
                   /\ \A c \in 0..(K(file) - 1) :
                        Cardinality({i \in 1..Len(hs) :
                                       hs[i].XFileChunkIndex = ToString(c)}) = 1

\* a flow that uploaded a one-chunk file and a file split in two has finished
C4_Witness ==
  \E f \in Flows :
    /\ flow[f].result = "ok"
    /\ Len(flow[f].validFiles) = 2
    /\ Len(flow[f].log) = 3
    /\ flow[f].log[3].XFileChunkIndex = "1"

\* C5: within one flow no POST /upload is sent before its POST /session
\* returned OK, every upload carries the session id of that response, and a
\* flow whose session creation failed sends no upload and never calls
\* onUploadComplete.
C5_SessionBeforeUploads ==
  \A f \in Flows :
    LET fl == flow[f]
    IN  /\ fl.log # << >> => fl.session = "ok" /\ fl.sessionId # None
        /\ \A i \in 1..Len(fl.log) : fl.log[i].XSessionID = fl.sessionId[1]
        /\ fl.session # "ok" => fl.log = << >> /\ fl.completeCalls = 0

\* one flow ended on a failed session creation while another has sent uploads
C5_Witness ==
  \E f, g \in Flows :
    /\ flow[f].session = "failed" /\ flow[f].pc = "done"
    /\ flow[g].session = "ok" /\ Len(flow[g].log) >= 2

\* C6 (as claimed): after a successful upload App's heatmap data has one entry
\* per date and its values sum to the sum of the session's
\* DailyAggregate.total_seconds.
C6_HeatmapMatchesDailyAggregates ==
  dataFrom # None =>
    LET daily == DailyAggregates(bevents[dataFrom[1]])
    IN  /\ \A i, j \in 1..Len(data) : data[i].date = data[j].date => i = j
        /\ SumSeq([i \in 1..Len(data) |-> data[i].count])
             = SumSeq([i \in 1..Len(daily) |-> MathRound(daily[i].total_seconds)])

\* C7 (as claimed): after handleClearData, data stays [] and allTimeStats
\* stays the empty structure until a later upload completes.
C7_ClearedViewStaysCleared ==
  clearedView => data = << >> /\ allTimeStats = Some(EmptyStats)

\* C8 (as claimed): once POST /clear_data has settled there is no state in
\* which App shows the cleared view while the session still holds its events
\* because the request failed.
C8_ClearIsAllOrNothing ==
  \A c \in clearSettled :
    ~c.ok => ~(/\ data = << >>
               /\ allTimeStats = Some(EmptyStats)
               /\ bevents[c.sid] # << >>)

\* C9 (as claimed): when the question gives a song and its artist and the
\* interpreter returns both, the intent sent to /chatbot/query carries that
\* artist.
C9_ArtistOfSongQueryIsSent ==
  lastQuery # None =>
    LET q == lastQuery[1]
    IN  (/\ q.question.song # None
         /\ q.question.artist # None
         /\ q.interpreted.entity_type = Some("song")
         /\ q.interpreted.artist = q.question.artist)
        => q.body.artist = q.question.artist

\* C10 (as claimed): every intent that reaches /chatbot/query is valid:
\* entity_type song, album or artist; metric time or count; timeframe a
\* 4-digit year or "all"; time unit minutes, hours or null.
C10_IntentValidatedAtBoundary ==
  lastQuery # None =>
    LET body == lastQuery[1].body
    IN  /\ body.entity_type \in {Some("song"), Some("album"), Some("artist")}
        /\ body.metric \in {Some("time"), Some("count")}
        /\ body.timeframe \in {Some("2020"), Some("all")}
        /\ body.time_amount \in {Some("minutes"), Some("hours"), None}

\* C11 (as claimed): every bot bubble that answers a message is the improved
\* text, the backend's response text or the fixed apology, also when the
\* /chatbot/query request or the rephrasing step failed.
C11_BotBubbleIsResponseOrApology ==
  \A i \in 1..Len(messages) :
    messages[i].sender = "bot" =>
      messages[i].text \in {Greeting.text, "improved text", "backend text", Apology.text}

\* C12 (as claimed): a flow whose chunk request is never answered does not
\* hang: it ends in failure with isUploading false.
C12_UnansweredUploadEnds ==
  \A f \in Flows :
    (/\ flow[f].pc = "awaitUpload"
     /\ \E r \in inflight : r.ep = "/upload" /\ r.flow = f /\ r.answer = "never")
      ~> (flow[f].pc = "done" /\ flow[f].result = "failed")

C15_ChunksUploadedInSequence ==
  \A f \in Flows :
    LET fl == flow[f]
        n == Len(fl.chunks)
    IN  /\ Len(fl.log) <= n
        /\ \A i \in 1..Len(fl.log) :
             /\ fl.log[i].XChunkIndex = ToString(i - 1)
             /\ fl.log[i].XTotalChunks = ToString(n)
        /\ fl.log # << >> => Len(fl.log) <= fl.okResponses + 1
        /\ fl.pc = "awaitUpload" => Len(fl.log) = fl.okResponses + 1
        /\ (fl.result = "failed" /\ fl.log # << >>) =>
             (Len(fl.log) = fl.okResponses + 1 /\ fl.okResponses < n)
        /\ fl.completeCalls = (IF fl.pc = "done" /\ fl.okResponses = n /\ n > 0
                               THEN 1 ELSE 0)
        /\ fl.result = "ok" <=> fl.completeCalls = 1

\* a flow of three chunks whose second upload failed, and one that completed
C15_Witness ==
  /\ \E f \in Flows :
       /\ flow[f].result = "failed"
       /\ Len(flow[f].chunks) = 3 /\ Len(flow[f].log) = 2 /\ flow[f].okResponses = 1
  /\ \E g \in Flows :
       flow[g].completeCalls = 1 /\ flow[g].okResponses = 3

\* C16 (as claimed): every file placed in a POST /upload body is at most
\* MAX_CHUNK_SIZE bytes, whatever the file's size and however its bytes are
\* spread over its records.
C16_ChunkFilesWithinMaxChunkSize ==
  \A i \in 1..Len(cchunks) : cchunks[i].file.size <= MAX_CHUNK_SIZE

\* C17 (as claimed): every chunk produced by splitting a file holds at least
\* one record (startIdx < endIdx <= n for each chunk index).
C17_EveryChunkHoldsARecord ==
  NeedsSplit(cfile) =>
    \A i \in 1..Len(cchunks) :
      /\ Len(cchunks[i].file.json) >= 1
      /\ (i - 1) * RecordsPerChunk(cfile.json, TotalChunks(cfile)) < Len(cfile.json)

\* C18: all files are chunked before any chunk is uploaded: a flow one of
\* whose files larger than MAX_CHUNK_SIZE cannot be read or parsed has sent no
\* POST /upload at all and has not called onUploadComplete, and a flow that
\* has sent an upload holds the chunks of all its files.
C18_ChunkingBeforeAnyUpload ==
  \A f \in Flows :
    LET fl == flow[f]
        unreadable(file) == file.size > MAX_CHUNK_SIZE /\ ~file.parses
    IN  /\ (\E i \in 1..Len(fl.validFiles) : unreadable(fl.validFiles[i])) =>
             (fl.log = << >> /\ fl.completeCalls = 0 /\ fl.result # "ok")
        /\ fl.log # << >> =>
             \A i \in 1..Len(fl.validFiles) :
               \E c \in 1..Len(fl.chunks) :
                 fl.chunks[c].originalName = fl.validFiles[i].name

\* a flow given a good file followed by a large unparsable one got its session
\* and ended in failure without an upload
C18_Witness ==
  \E f \in Flows :
    /\ flow[f].validFiles = <<FileA, FileBad>>
    /\ flow[f].session = "ok"
    /\ flow[f].pc = "done" /\ flow[f].result = "failed"
    /\ flow[f].log = << >>

\* C19 (as claimed): the /all_time_stats request issued for a completed upload
\* carries the session id that upload's chunks were sent with, also when two
\* flows overlap.
C19_StatsRequestNamesUploadSession ==
  \A r \in inflight :
    r.ep = "/all_time_stats" => r.sid = flow[r.flow].sessionId

\* C20 (as claimed): isUploading is true whenever some handleFolderSelect flow
\* of the mounted FolderUpload has a POST /session or POST /upload outstanding,
\* also when a second flow was started while the first is still running.
C20_UploadingWhileRequestOutstanding ==
  (UploadViewShown /\ \E r \in inflight :
      /\ r.ep \in {"/session", "/upload"}
      /\ flow[r.flow].gen = mountGen
      /\ flow[r.flow].pc \in {"awaitSession", "awaitUpload"})
    => isUploading

\* C21 (as claimed): once an upload or clear has settled (no handleFolderSelect
\* flow running, no /all_time_stats request outstanding) sessionStorage mirrors
\* the App state: data, selectedYear and allTimeStats, where set, equal the
\* stored 'spotifyData', 'selectedYear' and 'allTimeStats'.
C21_StorageMirrorsAppState ==
  (NoFlowRunning /\ \A r \in inflight : r.ep # "/all_time_stats") =>
    /\ data # << >> => storage.spotifyData = Some(data)
    /\ selectedYear # "" => storage.selectedYear = Some(selectedYear)
    /\ allTimeStats # None => storage.allTimeStats = allTimeStats

\* C22 (as claimed): once handleUploadComplete has received daily entries, data
\* is in ascending date order, selectedYear is the greatest YYYY among the
\* entries' date strings whatever the browser's time zone, and the entries
\* shown for selectedYear are exactly those whose date string has that year.
C22_SelectedYearIsLatestUtcYear ==
  data # << >> =>
    /\ \A i, j \in 1..Len(data) : i < j => ~DateBefore(data[j].date, data[i].date)
    /\ \E i \in 1..Len(data) : selectedYear = ToString(data[i].date.y)
    /\ \A i \in 1..Len(data) : data[i].date.y <= data[Len(data)].date.y
    /\ selectedYear = ToString(data[Len(data)].date.y)
    /\ LET inUtcYear(d) == ToString(d.date.y) = selectedYear
       IN  FilteredData = SelectSeq(data, inUtcYear)

\* C23 (as claimed): handleUploadComplete completes without throwing for every
\* array of daily entries, the empty array included; with the empty array the
\* app stays in the upload view with data = [] and selectedYear unchanged.
C23_UploadCompleteNeverThrows ==
  \A f \in Flows : ~flow[f].completeThrew

\* C24 (as claimed): after handleClearData, and until the next upload brings
\* the dashboard back, selectedDate is null and tracks is empty.
C24_ClearResetsDateAndTracks ==
  clearedView => (selectedDate = None /\ tracks = << >>)

\* C25 (as claimed): for songs, albums and artists alike, whenever the list's
\* loading flag is false the displayed list is the one built from
\* data[type][metrics[type]] for the metric selected now, also when the metric
\* was toggled while the previous metric's image requests were outstanding.
C25_ShownListIsOfSelectedMetric ==
  \A t \in Types :
    ~loadingList[t] => Entities(enrichedList[t]) = statsProp[t][metrics[t]]

\* C26: once a fetch round has finished, the list set for its type holds
\* exactly the entities of data[type][metric] of that round, in the same order,
\* whether every image request succeeded or one failed.
C26_FinishedRoundKeepsTopNOrder ==
  \A t \in Types :
    lastRound[t] # None =>
      /\ ~loadingList[t] \/ \E r \in rounds : r.type = t
      /\ Entities(enrichedList[t]) = statsProp[t][lastRound[t][1].metric]
      /\ lastRound[t][1].outcome = "failed" =>
           enrichedList[t] = statsProp[t][lastRound[t][1].metric]

\* rounds of both metrics have finished, one with every image request
\* answered (one image missing) and one through the catch branch
C26_Witness ==
  \E t1, t2 \in Types :
    /\ lastRound[t1] = Some([metric |-> "count", outcome |-> "ok"])
    /\ lastRound[t2] = Some([metric |-> "time", outcome |-> "failed"])
    /\ Len(enrichedList[t1]) = Len(statsProp[t1]["count"])
    /\ \E i \in 1..Len(enrichedList[t1]) : enrichedList[t1][i].image_url = None
    /\ enrichedList[t2] = statsProp[t2]["time"]

====
